---- MODULE Spec2Model ----
(***************************************************************************)
(* LatentLM/debug_hf.py: the training script of a latent diffusion model.  *)
(*                                                                         *)
(* Spec      the program as written: every data-parallel worker runs       *)
(*           main(): resume from a checkpoint, first batch, one-time       *)
(*           normalization statistics (two all-reduces), the reverse       *)
(*           diffusion rollout, the loss, and then line 281's exit().      *)
(* SpecNorm  the normalization block (lines 257-268) driven over a stream  *)
(*           of batches, since main() itself never pulls a second batch.   *)
(* SpecSync  the gradient-sync block (lines 287-316) of all workers,       *)
(*           which main() never reaches because of line 281.               *)
(* SpecDecay the decay schedule as main() configures the EMA tracker.      *)
(*                                                                         *)
(* Floats are exact rationals <<numerator, denominator>>; a tensor is      *)
(* represented by one element and by the statistics of the batch.          *)
(***************************************************************************)
EXTENDS Integers, Sequences, FiniteSets, TLC

\* ------------------------------------------------------------------ bounds

NumWorkers == 2

MaxInferenceSteps == 2

MaxBatches == 3

MaxSteps == 3

MaxDecayStep == 6

\* ------------------------------------------------------------ program data

Workers == 0 .. (NumWorkers - 1)

MainProcess == 0

None == <<>>

\* f"checkpoint-{global_step}" under args.output_dir
CheckpointPath(k) == <<"checkpoint", k>>

\* --ddpm_num_steps
NumTrainTimesteps == 1000

SolverOrder == 2

\* ------------------------------------------------------------- arithmetic

Abs(i) == IF i < 0 THEN -i ELSE i

RECURSIVE GCD(_, _)
GCD(a, b) == IF b = 0 THEN a ELSE GCD(b, a % b)

\* the rational n/d (d > 0) in lowest terms
Rat(n, d) ==
    LET g == GCD(Abs(n), d)
    IN  IF n = 0 THEN <<0, 1>> ELSE <<n \div g, d \div g>>

RAdd(p, q) == Rat(p[1] * q[2] + q[1] * p[2], p[2] * q[2])

RSub(p, q) == Rat(p[1] * q[2] - q[1] * p[2], p[2] * q[2])

RMul(p, q) == Rat(p[1] * q[1], p[2] * q[2])

RDivInt(p, k) == Rat(p[1], p[2] * k)

RLeq(p, q) == p[1] * q[2] <= q[1] * p[2]

RMin(p, q) == IF RLeq(p, q) THEN p ELSE q

RMax(p, q) == IF RLeq(p, q) THEN q ELSE p

RECURSIVE RPow(_, _)
RPow(p, k) == IF k = 0 THEN <<1, 1>> ELSE RMul(p, RPow(p, k - 1))

RECURSIVE RSum(_, _)
RSum(f, S) ==
    IF S = {} THEN <<0, 1>>
    ELSE LET x == CHOOSE y \in S : TRUE
         IN  RAdd(f[x], RSum(f, S \ {x}))

\* ------------------------------------------------------------------ state

VARIABLES
    args,            \* the parsed command line, the same on every worker
    disk,            \* checkpoint directories: path -> contents
    latest,          \* the "latest" marker file: a path, or None when absent
    pc,              \* each worker's position in main()
    checkpoint_path, \* each worker's resume path, None for a fresh run
    scaling_factor,
    bias_factor,
    global_step,
    running,         \* whether a training iteration has started
    params,          \* each worker's model parameters
    ema_model,       \* each worker's EMAModel
    err,             \* the exception that ended the worker, if any
    batch,           \* the latents of the current batch
    clean_images,    \* the diffusion target of the current batch
    reduce_buf,      \* the tensors handed to the two all-reduces
    noise_scheduler, \* each worker's DPMSolverMultistepScheduler
    step_calls,      \* timesteps passed to noise_scheduler.step this rollout
    loss,            \* whether this iteration's loss has been computed
    batches          \* batches pulled from the dataloader

vars == <<args, disk, latest, pc, checkpoint_path, scaling_factor, bias_factor,
          global_step, running, params, ema_model, err, batch, clean_images,
          reduce_buf, noise_scheduler, step_calls, loss, batches>>


\* --------------------------------------------------- external collaborators

\* models.EMAModel(parameters, decay, min_decay, use_ema_warmup, inv_gamma, power)
EMAModel(parameters, cfg) ==
    [tag |-> "ema", shadow_params |-> parameters, optimization_step |-> 0,
     decay |-> cfg.decay, min_decay |-> cfg.min_decay,
     use_ema_warmup |-> cfg.use_ema_warmup,
     inv_gamma |-> cfg.inv_gamma, power |-> cfg.power]

NoEma == [tag |-> "None"]

\* DecayScheduler: 1 - (1 + step/inv_gamma)^(-power), clamped to
\* [min_decay, max_decay]; inv_gamma and power are positive integers here
GetDecay(cfg, step) ==
    LET raw == RSub(<<1, 1>>,
                    RPow(Rat(cfg.inv_gamma, cfg.inv_gamma + step), cfg.power))
    IN  IF cfg.use_ema_warmup
        THEN RMax(RMin(raw, cfg.decay), cfg.min_decay)
        ELSE RMax(cfg.decay, cfg.min_decay)

\* EMAModel.step: shadow = shadow + (1 - d) * (current - shadow)
EMAStep(ema, current) ==
    LET d == GetDecay(ema, ema.optimization_step)
    IN  [ema EXCEPT
            !.shadow_params =
                RAdd(ema.shadow_params,
                     RMul(RSub(<<1, 1>>, d), RSub(current, ema.shadow_params))),
            !.optimization_step = ema.optimization_step + 1]

\* EMAModel.state_dict
EMAStateDict(ema) == ema

\* DPMSolverMultistepScheduler(...)
NewScheduler ==
    [state |-> "Uninitialized", timesteps |-> <<>>, cursor |-> 0, history |-> <<>>]

\* set_timesteps(n): n strictly decreasing timesteps, uniformly spaced from
\* the last training timestep; the history buffer is emptied
SetTimesteps(n) ==
    [state |-> "TimestepsSet",
     timesteps |-> [i \in 1 .. n |->
                       (NumTrainTimesteps - 1) - (i - 1) * (NumTrainTimesteps \div n)],
     cursor |-> 0,
     history |-> <<>>]

\* step(model_output, t, sample): a usage error outside TimestepsSet/Stepping;
\* otherwise the converted output enters the bounded history, the cursor
\* advances, and the state is Done once the cursor reaches n
SchedulerStep(s, t) ==
    IF s.state \notin {"TimestepsSet", "Stepping"}
    THEN [error |-> TRUE, scheduler |-> s]
    ELSE LET pushed == Append(s.history, t)
             kept   == IF Len(pushed) > SolverOrder THEN Tail(pushed) ELSE pushed
             next   == s.cursor + 1
         IN  [error |-> FALSE,
              scheduler |->
                  [s EXCEPT !.history = kept,
                            !.cursor = next,
                            !.state = IF next = Len(s.timesteps)
                                      THEN "Done" ELSE "Stepping"]]

\* -------------------------------------------------------------- main(): data

\* model = All_models[args.model](...): the freshly initialised parameters
InitParams == <<0, 1>>

NoError == [kind |-> "None", path |-> None]

\* the knobs with --ema_inv_gamma handed over as the decay floor
EmaConfigWrongFloor(a) ==
    [decay |-> a.ema_max_decay, min_decay |-> Rat(a.ema_inv_gamma, 1),
     use_ema_warmup |-> TRUE,
     inv_gamma |-> a.ema_inv_gamma, power |-> a.ema_power]

\* the knobs main() hands to EMAModel
EmaConfig(a) ==
    [decay |-> a.ema_max_decay, min_decay |-> a.ema_max_decay,
     use_ema_warmup |-> TRUE,
     inv_gamma |-> a.ema_inv_gamma, power |-> a.ema_power]

NewEmaModel(a) == IF a.use_ema THEN EMAModel(InitParams, EmaConfig(a)) ELSE NoEma

\* checkpoint_path: --checkpoint, else the content of the latest marker
ResumePath(a, marker) == IF a.checkpoint # None THEN a.checkpoint ELSE marker

\* the resume block without its ValueError: a checkpoint with no model
\* artifact leaves the parameters as they are
LoadCheckpointLenient(a, files, path, current) ==
    IF path \notin DOMAIN files \/ files[path].other_state.tag = "NoFile"
    THEN [err |-> [kind |-> "FileNotFoundError", path |-> path],
          params |-> current, scaling_factor |-> None, bias_factor |-> None]
    ELSE LET other_state == files[path].other_state
             dir == files[path]
         IN  [err |-> NoError,
              params |-> IF a.use_ema /\ other_state.ema.tag # "None"
                         THEN other_state.ema.shadow_params
                         ELSE IF dir.safetensors # None THEN dir.safetensors
                         ELSE IF dir.pytorch_model # None THEN dir.pytorch_model
                         ELSE current,
              scaling_factor |-> other_state.scaling_factor,
              bias_factor |-> other_state.bias_factor]

\* the resume block: what it leaves in scaling_factor, bias_factor and the
\* model parameters, or the exception it raises
LoadCheckpoint(a, files, path, current) ==
    IF path \notin DOMAIN files \/ files[path].other_state.tag = "NoFile"
    THEN [err |-> [kind |-> "FileNotFoundError", path |-> path],
          params |-> current, scaling_factor |-> None, bias_factor |-> None]
    ELSE LET other_state == files[path].other_state
             dir == files[path]
         IN  IF a.use_ema /\ other_state.ema.tag # "None"
             THEN [err |-> NoError,
                   params |-> other_state.ema.shadow_params,
                   scaling_factor |-> other_state.scaling_factor,
                   bias_factor |-> other_state.bias_factor]
             ELSE IF dir.safetensors # None
             THEN [err |-> NoError,
                   params |-> dir.safetensors,
                   scaling_factor |-> other_state.scaling_factor,
                   bias_factor |-> other_state.bias_factor]
             ELSE IF dir.pytorch_model # None
             THEN [err |-> NoError,
                   params |-> dir.pytorch_model,
                   scaling_factor |-> other_state.scaling_factor,
                   bias_factor |-> other_state.bias_factor]
             ELSE [err |-> [kind |-> "ValueError", path |-> path],
                   params |-> current,
                   scaling_factor |-> other_state.scaling_factor,
                   bias_factor |-> other_state.bias_factor]

\* 1. / clean_images.flatten().std()
LocalScale(b) == Rat(1, b.std)

\* -clean_images.flatten().mean()
LocalBias(b) == Rat(-b.mean, 1)

\* (clean_images + bias_factor) * scaling_factor
Normalized(latent, scale, bias) == RMul(RAdd(latent, bias), scale)

\* the loop stops one timestep short of the schedule
RolloutDoneEarly(w) == Len(step_calls[w]) + 1 >= Len(noise_scheduler[w].timesteps)

\* the for loop over noise_scheduler.timesteps is exhausted
RolloutDone(w) == Len(step_calls[w]) = Len(noise_scheduler[w].timesteps)

\* ---------------------------------------------------------- main(): inputs

\* a batch of latents: one element x and the statistics of the whole batch
Batches ==
    {[x |-> 1, mean |-> 1, std |-> 1], [x |-> 3, mean |-> 2, std |-> 2]}

SavedEma ==
    [tag |-> "ema", shadow_params |-> <<9, 1>>, optimization_step |-> 2,
     decay |-> <<9, 10>>, min_decay |-> <<9, 10>>, use_ema_warmup |-> TRUE,
     inv_gamma |-> 1, power |-> 1]

SavedOtherStates ==
    {[tag |-> "NoFile"]} \cup
    [tag : {"record"}, scaling_factor : {<<2, 1>>}, bias_factor : {<<-3, 2>>},
     steps : {2}, ema : {NoEma, SavedEma}]

\* a checkpoint directory as a previous run left it: with model.safetensors,
\* with the pytorch_model directory, or with neither
SavedDirs ==
    {d \in [state : {Workers}, other_state : SavedOtherStates,
            safetensors : {None, <<7, 1>>}, pytorch_model : {None, <<7, 1>>}] :
        d.safetensors = None \/ d.pytorch_model = None}

ArgsSet ==
    [use_ema : BOOLEAN, checkpoint : {None, CheckpointPath(2)},
     ddpm_num_inference_steps : 1 .. MaxInferenceSteps,
     is_transformer : BOOLEAN,
     ema_max_decay : {<<9, 10>>}, ema_inv_gamma : {1}, ema_power : {1},
     log_every : {3}, checkpointing_steps : {2}]

\* ------------------------------------------------------ main() as written

InitWorkers(a) ==
    /\ pc = [w \in Workers |-> "start"]
    /\ checkpoint_path = [w \in Workers |-> None]
    /\ scaling_factor = [w \in Workers |-> None]
    /\ bias_factor = [w \in Workers |-> None]
    /\ global_step = [w \in Workers |-> 0]
    /\ running = [w \in Workers |-> FALSE]
    /\ params = [w \in Workers |-> InitParams]
    /\ ema_model = [w \in Workers |-> NewEmaModel(a)]
    /\ err = [w \in Workers |-> NoError]
    /\ batch = [w \in Workers |-> None]
    /\ clean_images = [w \in Workers |-> None]
    /\ reduce_buf = [scale |-> [w \in Workers |-> None],
                     bias |-> [w \in Workers |-> None]]
    /\ noise_scheduler = [w \in Workers |-> NewScheduler]
    /\ step_calls = [w \in Workers |-> <<>>]
    /\ loss = [w \in Workers |-> FALSE]
    /\ batches = [w \in Workers |-> 0]

Init ==
    /\ args \in ArgsSet
    /\ \/ /\ args.checkpoint = None
          /\ latest = None
          /\ disk = [p \in {} |-> None]
       \/ /\ latest \in {None, CheckpointPath(2)}
          /\ (args.checkpoint = None) # (latest = None)
          /\ \E d \in SavedDirs : disk = [p \in {CheckpointPath(2)} |-> d]
    /\ InitWorkers(args)

\* lines 194-218
Resume(w) ==
    /\ pc[w] = "start"
    /\ LET path == ResumePath(args, latest)
           r == LoadCheckpoint(args, disk, path, params[w])
       IN  /\ checkpoint_path' = [checkpoint_path EXCEPT ![w] = path]
           /\ IF path = None
              THEN /\ pc' = [pc EXCEPT ![w] = "prepare"]
                   /\ UNCHANGED <<scaling_factor, bias_factor, params, err>>
              ELSE /\ scaling_factor' = [scaling_factor EXCEPT ![w] = r.scaling_factor]
                   /\ bias_factor' = [bias_factor EXCEPT ![w] = r.bias_factor]
                   /\ params' = [params EXCEPT ![w] = r.params]
                   /\ err' = [err EXCEPT ![w] = r.err]
                   /\ pc' = [pc EXCEPT ![w] = IF r.err = NoError
                                              THEN "prepare" ELSE "fatal"]
    /\ UNCHANGED <<args, disk, latest, global_step, running, ema_model, batch,
                   clean_images, reduce_buf, noise_scheduler, step_calls, loss,
                   batches>>

\* lines 220-252
Prepare(w) ==
    /\ pc[w] = "prepare"
    /\ global_step' = [global_step EXCEPT ![w] = 0]
    /\ scaling_factor' = [scaling_factor EXCEPT ![w] = None]
    /\ bias_factor' = [bias_factor EXCEPT ![w] = None]
    /\ pc' = [pc EXCEPT ![w] = "encode"]
    /\ UNCHANGED <<args, disk, latest, checkpoint_path, running, params,
                   ema_model, err, batch, clean_images, reduce_buf,
                   noise_scheduler, step_calls, loss, batches>>

\* lines 256-262 with the statistics recomputed on every batch
EncodeRecompute(w) ==
    /\ pc[w] = "encode"
    /\ \E b \in Batches :
          /\ batch' = [batch EXCEPT ![w] = b]
          /\ clean_images' = [clean_images EXCEPT ![w] = Rat(b.x, 1)]
          /\ scaling_factor' = [scaling_factor EXCEPT ![w] = LocalScale(b)]
          /\ bias_factor' = [bias_factor EXCEPT ![w] = LocalBias(b)]
          /\ pc' = [pc EXCEPT ![w] = "reduce_scale"]
    /\ running' = [running EXCEPT ![w] = TRUE]
    /\ batches' = [batches EXCEPT ![w] = @ + 1]
    /\ loss' = [loss EXCEPT ![w] = FALSE]
    /\ UNCHANGED <<args, disk, latest, checkpoint_path, global_step, params,
                   ema_model, err, reduce_buf, noise_scheduler, step_calls>>

\* lines 256-262
Encode(w) ==
    /\ pc[w] = "encode"
    /\ \E b \in Batches :
          /\ batch' = [batch EXCEPT ![w] = b]
          /\ clean_images' = [clean_images EXCEPT ![w] = Rat(b.x, 1)]
          /\ IF scaling_factor[w] = None
             THEN /\ scaling_factor' = [scaling_factor EXCEPT ![w] = LocalScale(b)]
                  /\ bias_factor' = [bias_factor EXCEPT ![w] = LocalBias(b)]
                  /\ pc' = [pc EXCEPT ![w] = "reduce_scale"]
             ELSE /\ UNCHANGED <<scaling_factor, bias_factor>>
                  /\ pc' = [pc EXCEPT ![w] = "normalize"]
    /\ running' = [running EXCEPT ![w] = TRUE]
    /\ batches' = [batches EXCEPT ![w] = @ + 1]
    /\ loss' = [loss EXCEPT ![w] = FALSE]
    /\ UNCHANGED <<args, disk, latest, checkpoint_path, global_step, params,
                   ema_model, err, reduce_buf, noise_scheduler, step_calls>>

\* line 263: the worker hands its tensor to the collective
ReduceScaleEnter(w) ==
    /\ pc[w] = "reduce_scale"
    /\ reduce_buf' = [reduce_buf EXCEPT !.scale[w] = scaling_factor[w]]
    /\ pc' = [pc EXCEPT ![w] = "wait_scale"]
    /\ UNCHANGED <<args, disk, latest, checkpoint_path, scaling_factor,
                   bias_factor, global_step, running, params, ema_model, err,
                   batch, clean_images, noise_scheduler, step_calls, loss,
                   batches>>

\* line 263: the collective returns the sum once every worker has joined
ReduceScaleExit(w) ==
    /\ pc[w] = "wait_scale"
    /\ \A v \in Workers : reduce_buf.scale[v] # None
    /\ scaling_factor' = [scaling_factor EXCEPT ![w] = RSum(reduce_buf.scale, Workers)]
    /\ pc' = [pc EXCEPT ![w] = "reduce_bias"]
    /\ UNCHANGED <<args, disk, latest, checkpoint_path, bias_factor,
                   global_step, running, params, ema_model, err, batch,
                   clean_images, reduce_buf, noise_scheduler, step_calls, loss,
                   batches>>

\* line 264
ReduceBiasEnter(w) ==
    /\ pc[w] = "reduce_bias"
    /\ reduce_buf' = [reduce_buf EXCEPT !.bias[w] = bias_factor[w]]
    /\ pc' = [pc EXCEPT ![w] = "wait_bias"]
    /\ UNCHANGED <<args, disk, latest, checkpoint_path, scaling_factor,
                   bias_factor, global_step, running, params, ema_model, err,
                   batch, clean_images, noise_scheduler, step_calls, loss,
                   batches>>

\* line 264
ReduceBiasExit(w) ==
    /\ pc[w] = "wait_bias"
    /\ \A v \in Workers : reduce_buf.bias[v] # None
    /\ bias_factor' = [bias_factor EXCEPT ![w] = RSum(reduce_buf.bias, Workers)]
    /\ pc' = [pc EXCEPT ![w] = "average"]
    /\ UNCHANGED <<args, disk, latest, checkpoint_path, scaling_factor,
                   global_step, running, params, ema_model, err, batch,
                   clean_images, reduce_buf, noise_scheduler, step_calls, loss,
                   batches>>

\* lines 265-267 with the division of bias_factor left out
AverageScaleOnly(w) ==
    /\ pc[w] = "average"
    /\ scaling_factor' = [scaling_factor EXCEPT ![w] = RDivInt(@, NumWorkers)]
    /\ pc' = [pc EXCEPT ![w] = "normalize"]
    /\ UNCHANGED <<args, disk, latest, checkpoint_path, bias_factor, global_step,
                   running, params, ema_model, err, batch, clean_images,
                   reduce_buf, noise_scheduler, step_calls, loss, batches>>

\* lines 265-267
Average(w) ==
    /\ pc[w] = "average"
    /\ scaling_factor' = [scaling_factor EXCEPT ![w] = RDivInt(@, NumWorkers)]
    /\ bias_factor' = [bias_factor EXCEPT ![w] = RDivInt(@, NumWorkers)]
    /\ pc' = [pc EXCEPT ![w] = "normalize"]
    /\ UNCHANGED <<args, disk, latest, checkpoint_path, global_step, running,
                   params, ema_model, err, batch, clean_images, reduce_buf,
                   noise_scheduler, step_calls, loss, batches>>

\* line 268
Normalize(w) ==
    /\ pc[w] = "normalize"
    /\ clean_images' = [clean_images EXCEPT
                           ![w] = Normalized(@, scaling_factor[w], bias_factor[w])]
    /\ pc' = [pc EXCEPT ![w] = "rollout_init"]
    /\ UNCHANGED <<args, disk, latest, checkpoint_path, scaling_factor,
                   bias_factor, global_step, running, params, ema_model, err,
                   batch, reduce_buf, noise_scheduler, step_calls, loss,
                   batches>>

\* lines 270-275, and 282-283 for a model that is not a Transformer
RolloutInit(w) ==
    /\ pc[w] = "rollout_init"
    /\ IF args.is_transformer
       THEN /\ noise_scheduler' = [noise_scheduler EXCEPT
                  ![w] = SetTimesteps(args.ddpm_num_inference_steps)]
            /\ step_calls' = [step_calls EXCEPT ![w] = <<>>]
            /\ pc' = [pc EXCEPT ![w] = "rollout"]
            /\ UNCHANGED err
       ELSE /\ err' = [err EXCEPT ![w] = [kind |-> "NotImplementedError",
                                          path |-> None]]
            /\ pc' = [pc EXCEPT ![w] = "fatal"]
            /\ UNCHANGED <<noise_scheduler, step_calls>>
    /\ UNCHANGED <<args, disk, latest, checkpoint_path, scaling_factor,
                   bias_factor, global_step, running, params, ema_model, batch,
                   clean_images, reduce_buf, loss, batches>>

\* lines 276-278: one pass of the loop over noise_scheduler.timesteps
RolloutStep(w) ==
    /\ pc[w] = "rollout"
    /\ ~RolloutDone(w)
    /\ LET t == noise_scheduler[w].timesteps[Len(step_calls[w]) + 1]
           r == SchedulerStep(noise_scheduler[w], t)
       IN  IF r.error
           THEN /\ err' = [err EXCEPT ![w] = [kind |-> "UsageError", path |-> None]]
                /\ pc' = [pc EXCEPT ![w] = "fatal"]
                /\ UNCHANGED <<noise_scheduler, step_calls>>
           ELSE /\ noise_scheduler' = [noise_scheduler EXCEPT ![w] = r.scheduler]
                /\ step_calls' = [step_calls EXCEPT ![w] = Append(@, t)]
                /\ UNCHANGED <<err, pc>>
    /\ UNCHANGED <<args, disk, latest, checkpoint_path, scaling_factor,
                   bias_factor, global_step, running, params, ema_model, batch,
                   clean_images, reduce_buf, loss, batches>>

\* lines 279-280
ComputeLoss(w) ==
    /\ pc[w] = "rollout"
    /\ RolloutDone(w)
    /\ loss' = [loss EXCEPT ![w] = TRUE]
    /\ pc' = [pc EXCEPT ![w] = "after_loss"]
    /\ UNCHANGED <<args, disk, latest, checkpoint_path, scaling_factor,
                   bias_factor, global_step, running, params, ema_model, err,
                   batch, clean_images, reduce_buf, noise_scheduler, step_calls,
                   batches>>

\* line 281
Exit(w) ==
    /\ pc[w] = "after_loss"
    /\ pc' = [pc EXCEPT ![w] = "exited"]
    /\ UNCHANGED <<args, disk, latest, checkpoint_path, scaling_factor,
                   bias_factor, global_step, running, params, ema_model, err,
                   batch, clean_images, reduce_buf, noise_scheduler, step_calls,
                   loss, batches>>

Next ==
    \E w \in Workers :
        \/ Resume(w)
        \/ Prepare(w)
        \/ Encode(w)
        \/ ReduceScaleEnter(w)
        \/ ReduceScaleExit(w)
        \/ ReduceBiasEnter(w)
        \/ ReduceBiasExit(w)
        \/ Average(w)
        \/ Normalize(w)
        \/ RolloutInit(w)
        \/ RolloutStep(w)
        \/ ComputeLoss(w)
        \/ Exit(w)

Spec == Init /\ [][Next]_vars

\* ------------------------------------------------- main() as written: claims

\* the worker has entered the training loop
InLoop(w) == pc[w] \notin {"start", "prepare", "fatal"} \/ running[w]

\* the diffusion target of the current batch is ready
TargetReady(w) == pc[w] \in {"rollout_init", "rollout", "after_loss", "exited"}

\* the worker is inside the first-batch statistics computation
ComputingStatistics(w) ==
    pc[w] \in {"reduce_scale", "wait_scale", "reduce_bias", "wait_bias", "average"}

\* the side record of the checkpoint the worker resumed from
SideRecord(w) == disk[checkpoint_path[w]].other_state

\* C1: a run resumed from a side record holding (s, b) normalizes every batch,
\* the first included, as (latent + b) * s, and never executes the first-batch
\* statistics computation or its all-reduce.
C1_ResumedRunUsesRestoredPair ==
    \A w \in Workers :
        (checkpoint_path[w] # None /\ InLoop(w)) =>
            /\ ~ComputingStatistics(w)
            /\ TargetReady(w) =>
                  clean_images[w] =
                      Normalized(Rat(batch[w].x, 1), SideRecord(w).scaling_factor,
                                 SideRecord(w).bias_factor)

\* the pair the claim expects after the first batch: the mean over the workers
\* of the local 1/std and -mean
MeanScale == RDivInt(RSum([v \in Workers |-> LocalScale(batch[v])], Workers), NumWorkers)

MeanBias == RDivInt(RSum([v \in Workers |-> LocalBias(batch[v])], Workers), NumWorkers)

\* C4: once the first-batch normalization step is complete on a worker, that
\* worker holds (sum_i scale_i / N, sum_i bias_i / N), so no two workers
\* normalize with different pairs, and the target is built from that pair.
C4_AllWorkersHoldMeanPair ==
    \A w \in Workers :
        /\ (pc[w] = "normalize" \/ TargetReady(w)) =>
              /\ scaling_factor[w] = MeanScale
              /\ bias_factor[w] = MeanBias
        /\ TargetReady(w) =>
              clean_images[w] = Normalized(Rat(batch[w].x, 1), MeanScale, MeanBias)

\* workers with different local statistics have all finished the step
C4_Witness ==
    /\ \A w \in Workers : TargetReady(w)
    /\ \E v, w \in Workers : LocalScale(batch[v]) # LocalScale(batch[w])

\* C5: a run resumed from a side record holding steps = k starts its global
\* step counter at k.
C5_GlobalStepResumesAtSavedSteps ==
    \A w \in Workers :
        (checkpoint_path[w] # None /\ InLoop(w)) =>
            global_step[w] = SideRecord(w).steps

\* C6: an iteration that computed the loss goes on to backpropagation and the
\* gradient-sync boundary, so a worker that has computed a loss never ends
\* its run with the global step counter still at zero.
C6_LossIsFollowedBySyncBoundary ==
    \A w \in Workers : (loss[w] /\ pc[w] = "exited") => global_step[w] > 0

\* C7: with EMA enabled, a run resumed from a side record that contains EMA
\* state holds the saved shadow values, call counter and configuration in its
\* tracker, so its next step continues the saved trajectory.
C7_EmaTrackerRestored ==
    \A w \in Workers :
        (checkpoint_path[w] # None /\ InLoop(w) /\ args.use_ema
            /\ SideRecord(w).ema.tag = "ema") =>
            /\ ema_model[w] = SideRecord(w).ema
            /\ EMAStep(ema_model[w], params[w]) = EMAStep(SideRecord(w).ema, params[w])

\* C8: in a rollout, set_timesteps(n) is followed by exactly n step calls,
\* one per timestep of the schedule in order, which leave the scheduler Done;
\* step is never called before set_timesteps, never fails inside the loop,
\* and one more call after the n-th would be a usage error.
C8_RolloutStepsOncePerTimestep ==
    \A w \in Workers :
        /\ err[w].kind # "UsageError"
        /\ step_calls[w] # <<>> => noise_scheduler[w].state \in {"Stepping", "Done"}
        /\ pc[w] = "rollout" =>
              /\ noise_scheduler[w].cursor = Len(step_calls[w])
              /\ Len(step_calls[w]) <= args.ddpm_num_inference_steps
              /\ noise_scheduler[w].state =
                    IF Len(step_calls[w]) = 0 THEN "TimestepsSet"
                    ELSE IF Len(step_calls[w]) < args.ddpm_num_inference_steps
                    THEN "Stepping" ELSE "Done"
        /\ pc[w] \in {"after_loss", "exited"} =>
              /\ Len(step_calls[w]) = args.ddpm_num_inference_steps
              /\ step_calls[w] = SetTimesteps(args.ddpm_num_inference_steps).timesteps
              /\ \A i \in 1 .. (Len(step_calls[w]) - 1) :
                    step_calls[w][i] > step_calls[w][i + 1]
              /\ noise_scheduler[w].state = "Done"
              /\ SchedulerStep(noise_scheduler[w], 0).error

\* a rollout of more than one step has run to its end
C8_Witness ==
    \E w \in Workers :
        /\ pc[w] = "after_loss"
        /\ Len(step_calls[w]) > 1
        /\ noise_scheduler[w].state = "Done"

\* no recognized model checkpoint artifact at the path
NoModelArtifact(path) ==
    \/ path \notin DOMAIN disk
    \/ disk[path].safetensors = None /\ disk[path].pytorch_model = None

\* the side record at the path holds EMA state
HoldsEmaState(path) ==
    /\ path \in DOMAIN disk
    /\ disk[path].other_state.tag = "record"
    /\ disk[path].other_state.ema.tag = "ema"

\* startup ended in a fatal error that reports the path, with no parameters
\* loaded and no training iteration run
FatalAtStartup(w, path) ==
    /\ pc[w] = "fatal"
    /\ err[w].kind \in {"ValueError", "FileNotFoundError"}
    /\ err[w].path = path
    /\ params[w] = InitParams
    /\ ~running[w]

\* C9 as stated: with a resume path in effect and no model artifact at it,
\* startup is fatal, whether or not EMA is enabled and present in the record.
C9_MissingArtifactAlwaysFatal ==
    \A w \in Workers :
        (checkpoint_path[w] # None /\ NoModelArtifact(checkpoint_path[w])) =>
            FatalAtStartup(w, checkpoint_path[w])

\* C9 as amended: with a resume path in effect and no model artifact at it,
\* startup is fatal unless EMA is enabled and the side record holds EMA state
\* (a ValueError naming the path, or the loader's file-not-found error when
\* the side record itself is missing); with EMA enabled and EMA state in the
\* record the parameters are the saved shadow values and startup goes on
\* without looking for a model artifact.
C9_MissingArtifactFatalUnlessEma ==
    \A w \in Workers :
        (checkpoint_path[w] # None /\ NoModelArtifact(checkpoint_path[w])) =>
            IF args.use_ema /\ HoldsEmaState(checkpoint_path[w])
            THEN /\ err[w].kind \notin {"ValueError", "FileNotFoundError"}
                 /\ params[w] = SideRecord(w).ema.shadow_params
            ELSE /\ FatalAtStartup(w, checkpoint_path[w])
                 /\ err[w].kind =
                       IF SideRecord(w).tag = "NoFile"
                       THEN "FileNotFoundError" ELSE "ValueError"

\* a resume with a side record but no model artifact ended in the ValueError
C9_Witness ==
    \E w \in Workers :
        /\ checkpoint_path[w] # None
        /\ NoModelArtifact(checkpoint_path[w])
        /\ pc[w] = "fatal"
        /\ err[w] = [kind |-> "ValueError", path |-> checkpoint_path[w]]

\* ------------------------------- the normalization block over several batches

\* a fresh run about to pull its first batch (after line 252)
InitNorm ==
    /\ args \in {a \in ArgsSet : /\ a.checkpoint = None
                                 /\ a.is_transformer
                                 /\ a.ddpm_num_inference_steps = 1}
    /\ latest = None
    /\ disk = [p \in {} |-> None]
    /\ pc = [w \in Workers |-> "encode"]
    /\ checkpoint_path = [w \in Workers |-> None]
    /\ scaling_factor = [w \in Workers |-> None]
    /\ bias_factor = [w \in Workers |-> None]
    /\ global_step = [w \in Workers |-> 0]
    /\ running = [w \in Workers |-> FALSE]
    /\ params = [w \in Workers |-> InitParams]
    /\ ema_model = [w \in Workers |-> NewEmaModel(args)]
    /\ err = [w \in Workers |-> NoError]
    /\ batch = [w \in Workers |-> None]
    /\ clean_images = [w \in Workers |-> None]
    /\ reduce_buf = [scale |-> [w \in Workers |-> None],
                     bias |-> [w \in Workers |-> None]]
    /\ noise_scheduler = [w \in Workers |-> NewScheduler]
    /\ step_calls = [w \in Workers |-> <<>>]
    /\ loss = [w \in Workers |-> FALSE]
    /\ batches = [w \in Workers |-> 0]

\* line 256: the dataloader hands over the next batch (lines 270-316 left out)
NextBatch(w) ==
    /\ pc[w] = "rollout_init"
    /\ batches[w] < MaxBatches
    /\ pc' = [pc EXCEPT ![w] = "encode"]
    /\ UNCHANGED <<args, disk, latest, checkpoint_path, scaling_factor,
                   bias_factor, global_step, running, params, ema_model, err,
                   batch, clean_images, reduce_buf, noise_scheduler, step_calls,
                   loss, batches>>

NextNorm ==
    \E w \in Workers :
        \/ Encode(w)
        \/ ReduceScaleEnter(w)
        \/ ReduceScaleExit(w)
        \/ ReduceBiasEnter(w)
        \/ ReduceBiasExit(w)
        \/ Average(w)
        \/ Normalize(w)
        \/ NextBatch(w)

SpecNorm == InitNorm /\ [][NextNorm]_vars

\* the first batch has set the worker's pair
PairFixed(w) == batches[w] >= 1 /\ ~ComputingStatistics(w)

\* C3: once the first batch has set (scale, bias), no later step changes the
\* pair, whatever the statistics of later batches, and every diffusion target
\* is (latent + bias) * scale for that pair.
C3_PairFrozenAfterFirstBatch ==
    [][\A w \in Workers :
          PairFixed(w) =>
              /\ scaling_factor'[w] = scaling_factor[w]
              /\ bias_factor'[w] = bias_factor[w]
              /\ pc'[w] = "rollout_init" =>
                    clean_images'[w] =
                        Normalized(Rat(batch'[w].x, 1), scaling_factor[w],
                                   bias_factor[w])]_vars

\* a later batch whose own statistics differ from the frozen pair has been
\* normalized
C3_Witness ==
    \E w \in Workers :
        /\ batches[w] >= 2
        /\ pc[w] = "rollout_init"
        /\ LocalScale(batch[w]) # scaling_factor[w]
        /\ LocalBias(batch[w]) # bias_factor[w]

\* ------------------------------------------------- the gradient-sync block

SyncArgsSet ==
    [use_ema : BOOLEAN, checkpoint : {None}, ddpm_num_inference_steps : {1},
     is_transformer : {TRUE},
     ema_max_decay : {<<9, 10>>}, ema_inv_gamma : {1}, ema_power : {1},
     log_every : {2, 3}, checkpointing_steps : {1, 2}]

EmptyDir ==
    [state |-> {}, other_state |-> [tag |-> "NoFile"],
     safetensors |-> None, pytorch_model |-> None]

\* every worker is in accelerator.backward of its first iteration, the
\* normalization pair already fixed
InitSync ==
    /\ args \in SyncArgsSet
    /\ latest = None
    /\ disk = [p \in {} |-> EmptyDir]
    /\ pc = [w \in Workers |-> "backward"]
    /\ checkpoint_path = [w \in Workers |-> None]
    /\ scaling_factor = [w \in Workers |-> <<2, 3>>]
    /\ bias_factor = [w \in Workers |-> <<-3, 2>>]
    /\ global_step = [w \in Workers |-> 0]
    /\ running = [w \in Workers |-> TRUE]
    /\ params = [w \in Workers |-> <<1, 1>>]
    /\ ema_model = [w \in Workers |-> NewEmaModel(args)]
    /\ err = [w \in Workers |-> NoError]
    /\ batch = [w \in Workers |-> None]
    /\ clean_images = [w \in Workers |-> None]
    /\ reduce_buf = [scale |-> [w \in Workers |-> None],
                     bias |-> [w \in Workers |-> None]]
    /\ noise_scheduler = [w \in Workers |-> NewScheduler]
    /\ step_calls = [w \in Workers |-> <<>>]
    /\ loss = [w \in Workers |-> TRUE]
    /\ batches = [w \in Workers |-> 1]

\* save_path of the checkpoint the worker is writing
SavePath(w) == CheckpointPath(global_step[w])

\* line 284: backward returns once the gradients of all workers are combined,
\* that is once every worker has entered the backward of this iteration
Backward(w) ==
    /\ pc[w] = "backward"
    /\ global_step[w] < MaxSteps
    /\ \A v \in Workers :
          \/ global_step[v] > global_step[w]
          \/ global_step[v] = global_step[w] /\ pc[v] = "backward"
    /\ pc' = [pc EXCEPT ![w] = "sync"]
    /\ UNCHANGED <<args, disk, latest, checkpoint_path, scaling_factor,
                   bias_factor, global_step, running, params, ema_model, err,
                   batch, clean_images, reduce_buf, noise_scheduler, step_calls,
                   loss, batches>>

\* lines 287-302: the step counter, the EMA update, the logging cadence
\* (whose line 294 reads the undefined name gnorm) and the checkpoint cadence
SyncStep(w) ==
    /\ pc[w] = "sync"
    /\ LET k == global_step[w] + 1
       IN  /\ global_step' = [global_step EXCEPT ![w] = k]
           /\ ema_model' = [ema_model EXCEPT
                  ![w] = IF args.use_ema THEN EMAStep(@, params[w]) ELSE @]
           /\ IF k % args.log_every = 0
              THEN /\ err' = [err EXCEPT ![w] = [kind |-> "NameError", path |-> None]]
                   /\ pc' = [pc EXCEPT ![w] = "fatal"]
              ELSE /\ UNCHANGED err
                   /\ pc' = [pc EXCEPT ![w] = IF k % args.checkpointing_steps = 0
                                              THEN "save_state" ELSE "backward"]
    /\ UNCHANGED <<args, disk, latest, checkpoint_path, scaling_factor,
                   bias_factor, running, params, batch, clean_images,
                   reduce_buf, noise_scheduler, step_calls, loss, batches>>

\* lines 313-314 and 304: accelerator.save_state writes the worker's share of
\* the directory, the model weights being the main process's share
SaveState(w) ==
    /\ pc[w] = "save_state"
    /\ LET path == SavePath(w)
           dir == IF path \in DOMAIN disk THEN disk[path] ELSE EmptyDir
           new == [dir EXCEPT !.state = @ \cup {w},
                              !.safetensors = IF w = MainProcess THEN params[w] ELSE @]
       IN  disk' = [p \in DOMAIN disk \cup {path} |->
                       IF p = path THEN new ELSE disk[p]]
    /\ pc' = [pc EXCEPT ![w] = "other_state"]
    /\ UNCHANGED <<args, latest, checkpoint_path, scaling_factor, bias_factor,
                   global_step, running, params, ema_model, err, batch,
                   clean_images, reduce_buf, noise_scheduler, step_calls, loss,
                   batches>>

\* lines 305-312: the main process writes other_state.pth
WriteOtherState(w) ==
    /\ pc[w] = "other_state"
    /\ IF w = MainProcess
       THEN disk' = [disk EXCEPT ![SavePath(w)].other_state =
                        [tag |-> "record",
                         scaling_factor |-> scaling_factor[w],
                         bias_factor |-> bias_factor[w],
                         steps |-> global_step[w],
                         ema |-> IF args.use_ema
                                 THEN EMAStateDict(ema_model[w]) ELSE NoEma]]
       ELSE UNCHANGED disk
    /\ pc' = [pc EXCEPT ![w] = "write_latest"]
    /\ UNCHANGED <<args, latest, checkpoint_path, scaling_factor, bias_factor,
                   global_step, running, params, ema_model, err, batch,
                   clean_images, reduce_buf, noise_scheduler, step_calls, loss,
                   batches>>

\* lines 315-316: safe_blob_write replaces the latest marker in one piece
WriteLatest(w) ==
    /\ pc[w] = "write_latest"
    /\ latest' = SavePath(w)
    /\ pc' = [pc EXCEPT ![w] = "backward"]
    /\ UNCHANGED <<args, disk, checkpoint_path, scaling_factor, bias_factor,
                   global_step, running, params, ema_model, err, batch,
                   clean_images, reduce_buf, noise_scheduler, step_calls, loss,
                   batches>>

\* the job is killed while some worker is inside the checkpoint sequence
Crash ==
    /\ \E w \in Workers : pc[w] \in {"save_state", "other_state", "write_latest"}
    /\ pc' = [w \in Workers |-> "crashed"]
    /\ UNCHANGED <<args, disk, latest, checkpoint_path, scaling_factor,
                   bias_factor, global_step, running, params, ema_model, err,
                   batch, clean_images, reduce_buf, noise_scheduler, step_calls,
                   loss, batches>>

NextSync ==
    \/ \E w \in Workers :
          \/ Backward(w)
          \/ SyncStep(w)
          \/ SaveState(w)
          \/ WriteOtherState(w)
          \/ WriteLatest(w)
    \/ Crash

SpecSync == InitSync /\ [][NextSync]_vars

\* every worker's save_state share, the model weights and the side record
\* are on disk
Complete(dir) ==
    /\ dir.state = Workers
    /\ dir.safetensors # None
    /\ dir.other_state.tag = "record"

DecayArgsSet ==
    [use_ema : {TRUE}, checkpoint : {None}, ddpm_num_inference_steps : {1},
     is_transformer : {TRUE},
     ema_max_decay : {<<1, 2>>, <<2, 3>>},
     ema_inv_gamma : {1, 2}, ema_power : {1, 2},
     log_every : {3}, checkpointing_steps : {2}]

InitDecay ==
    /\ args \in DecayArgsSet
    /\ latest = None
    /\ disk = [p \in {} |-> EmptyDir]
    /\ pc = [w \in Workers |-> "sync"]
    /\ checkpoint_path = [w \in Workers |-> None]
    /\ scaling_factor = [w \in Workers |-> <<2, 3>>]
    /\ bias_factor = [w \in Workers |-> <<-3, 2>>]
    /\ global_step = [w \in Workers |-> 0]
    /\ running = [w \in Workers |-> TRUE]
    /\ params = [w \in Workers |-> <<1, 1>>]
    /\ ema_model = [w \in Workers |-> NewEmaModel(args)]
    /\ err = [w \in Workers |-> NoError]
    /\ batch = [w \in Workers |-> None]
    /\ clean_images = [w \in Workers |-> None]
    /\ reduce_buf = [scale |-> [w \in Workers |-> None],
                     bias |-> [w \in Workers |-> None]]
    /\ noise_scheduler = [w \in Workers |-> NewScheduler]
    /\ step_calls = [w \in Workers |-> <<>>]
    /\ loss = [w \in Workers |-> TRUE]
    /\ batches = [w \in Workers |-> 1]

\* lines 289-290: ema_model.step(model.parameters())
EmaUpdate(w) ==
    /\ ema_model[w].optimization_step < MaxDecayStep
    /\ ema_model' = [ema_model EXCEPT ![w] = EMAStep(@, params[w])]
    /\ global_step' = [global_step EXCEPT ![w] = @ + 1]
    /\ UNCHANGED <<args, disk, latest, pc, checkpoint_path, scaling_factor,
                   bias_factor, running, params, err, batch, clean_images,
                   reduce_buf, noise_scheduler, step_calls, loss, batches>>

NextDecay == \E w \in Workers : EmaUpdate(w)

SpecDecay == InitDecay /\ [][NextDecay]_vars

\* C10: as main() configures the tracker (warmup on), the decay is
\* non-decreasing in the step count and never above max_decay, and step 0
\* has a value within the clamp.
C10_DecayMonotoneBelowMax ==
    \A w \in Workers :
        LET ema == ema_model[w]
        IN  /\ ema.use_ema_warmup
            /\ RLeq(ema.min_decay, GetDecay(ema, 0))
            /\ RLeq(GetDecay(ema, 0), args.ema_max_decay)
            /\ \A s1, s2 \in 0 .. ema.optimization_step :
                  s1 < s2 =>
                      /\ RLeq(GetDecay(ema, s1), GetDecay(ema, s2))
                      /\ RLeq(GetDecay(ema, s2), args.ema_max_decay)

\* a tracker that has stepped at least twice
C10_Witness ==
    \E w \in Workers :
        /\ ema_model[w].optimization_step >= 2
        /\ ema_model[w].shadow_params # InitParams

====
